---- MODULE Spec2Model ----
(***************************************************************************)
(* The racing game of dash-dynamo-deluxe: the page (Index), the 2D game    *)
(* component (RacingGame) and the 3D game component (RacingGame3D).        *)
(*                                                                         *)
(* Numbers.  JavaScript numbers are IEEE-754 binary64.  Two quantities of  *)
(* the game are compared against exact limits after repeated additions of *)
(* a constant that binary64 cannot represent (playerX +/- 0.1 against      *)
(* +/-4, time + 1/60 against the time limit), so they are modelled as      *)
(* binary64 values, bit for bit: a sign and a magnitude counted in units   *)
(* of 2^-58, held in three limbs of 24 bits (TLC's integers have 32 bits). *)
(* Every other quantity is kept as an exact decimal fixed-point integer:   *)
(* speeds, nitro and positions in tenths, enemy coordinates and enemy      *)
(* speeds in hundredths, the score in hundredths.                          *)
(***************************************************************************)
EXTENDS Integers, Sequences, FiniteSets, TLC

(***************************************************************************)
(* binary64 arithmetic (round to nearest, ties to even)                    *)
(***************************************************************************)
Limb == 2 ^ 24      \* the base of the magnitude's limbs

\* The magnitude <<l2, l1, l0>> stands for (l2*2^48 + l1*2^24 + l0) * 2^-58.
MagLess(a, b) ==
    \/ a[1] < b[1]
    \/ a[1] = b[1] /\ a[2] < b[2]
    \/ a[1] = b[1] /\ a[2] = b[2] /\ a[3] < b[3]

MagAdd(a, b) ==
    LET s0 == a[3] + b[3]
        c0 == s0 \div Limb
        s1 == a[2] + b[2] + c0
        c1 == s1 \div Limb
    IN  << a[1] + b[1] + c1, s1 % Limb, s0 % Limb >>

\* a - b for a >= b
MagSub(a, b) ==
    LET d0 == a[3] - b[3]
        b0 == IF d0 < 0 THEN 1 ELSE 0
        d1 == a[2] - b[2] - b0
        b1 == IF d1 < 0 THEN 1 ELSE 0
    IN  << a[1] - b[1] - b1, d1 + b1 * Limb, d0 + b0 * Limb >>

RECURSIVE BitLen(_)
BitLen(n) == IF n = 0 THEN 0 ELSE 1 + BitLen(n \div 2)

\* The exact magnitude m rounded to 53 significant bits.  With a top limb
\* below 32 the magnitude is below 2^53 units and is a binary64 value as it
\* stands; otherwise the spacing of the binade is 2^(BitLen(l2) - 5) units.
MagRound(m) ==
    IF m[1] < 32 THEN m
    ELSE LET S    == 2 ^ (BitLen(m[1]) - 5)
             r    == m[3] % S
             down == m[3] - r
             odd  == (down \div S) % 2 = 1
             up   == (2 * r > S) \/ (2 * r = S /\ odd)
         IN  IF ~up THEN << m[1], m[2], down >>
             ELSE MagAdd(<< m[1], m[2], down >>, << 0, 0, S >>)

F64Zero == [neg |-> FALSE, m |-> << 0, 0, 0 >>]

\* x + y
F64Add(x, y) ==
    IF x.neg = y.neg
    THEN [neg |-> x.neg, m |-> MagRound(MagAdd(x.m, y.m))]
    ELSE IF x.m = y.m THEN F64Zero
    ELSE IF MagLess(x.m, y.m)
         THEN [neg |-> y.neg, m |-> MagRound(MagSub(y.m, x.m))]
         ELSE [neg |-> x.neg, m |-> MagRound(MagSub(x.m, y.m))]

F64Neg(x) == IF x.m = << 0, 0, 0 >> THEN x ELSE [neg |-> ~x.neg, m |-> x.m]

\* x - y
F64Sub(x, y) == F64Add(x, F64Neg(y))

\* x < y
F64Less(x, y) ==
    IF x.neg /\ ~y.neg THEN TRUE
    ELSE IF ~x.neg /\ y.neg THEN FALSE
    ELSE IF x.neg THEN MagLess(y.m, x.m)
    ELSE MagLess(x.m, y.m)

\* x <= y
F64Leq(x, y) == ~F64Less(y, x)

\* The binary64 value of the integer n (|n| < 256: exact).
F64Int(n) ==
    IF n < 0 THEN [neg |-> TRUE, m |-> << (0 - n) * 1024, 0, 0 >>]
    ELSE [neg |-> FALSE, m |-> << n * 1024, 0, 0 >>]

\* The binary64 values nearest to the decimal literals of the source.
F64_0_1  == [neg |-> FALSE, m |-> << 102, 6710886, 6710888 >>]     \* 0.1
F64_0_4  == [neg |-> FALSE, m |-> << 409, 10066329, 10066336 >>]   \* 0.4
F64_0_8  == [neg |-> FALSE, m |-> << 819, 3355443, 3355456 >>]     \* 0.8
F64_1_60 == [neg |-> FALSE, m |-> << 17, 1118481, 1118481 >>]      \* 1/60

(***************************************************************************)
(* Mode configurations                                                     *)
(***************************************************************************)
GameModes == {"classic", "timeAttack", "quickRace", "endless", "competition"}

Infinity == -1          \* stands for the timeLimit Infinity

\* RacingGame3D getModeConfig
getModeConfig3D(mode) ==
    CASE mode = "timeAttack" ->
           [timeLimit |-> 60, enemies |-> 8, maxSpeed |-> 15,
            hasNitro |-> FALSE, hasHealth |-> FALSE, aggressiveAI |-> FALSE]
      [] mode = "quickRace" ->
           [timeLimit |-> 30, enemies |-> 6, maxSpeed |-> 12,
            hasNitro |-> FALSE, hasHealth |-> FALSE, aggressiveAI |-> FALSE]
      [] mode = "competition" ->
           [timeLimit |-> 120, enemies |-> 15, maxSpeed |-> 20,
            hasNitro |-> TRUE, hasHealth |-> TRUE, aggressiveAI |-> TRUE]
      [] mode = "endless" ->
           [timeLimit |-> Infinity, enemies |-> 10, maxSpeed |-> 18,
            hasNitro |-> FALSE, hasHealth |-> FALSE, aggressiveAI |-> FALSE]
      [] OTHER ->
           [timeLimit |-> 90, enemies |-> 8, maxSpeed |-> 15,
            hasNitro |-> FALSE, hasHealth |-> FALSE, aggressiveAI |-> FALSE]

\* RacingGame (2D) getModeConfig
getModeConfig2D(mode) ==
    CASE mode = "timeAttack"  -> [timeLimit |-> 60, enemies |-> 8]
      [] mode = "quickRace"   -> [timeLimit |-> 30, enemies |-> 6]
      [] mode = "competition" -> [timeLimit |-> 120, enemies |-> 12]
      [] mode = "endless"     -> [timeLimit |-> Infinity, enemies |-> 10]
      [] OTHER                -> [timeLimit |-> 90, enemies |-> 8]

(***************************************************************************)
(* Math.random().  A draw r is kept as the integer 100 * r, 0 <= r < 1.     *)
(* Each use of Math.random() draws from the small set named for it.        *)
(***************************************************************************)
\* A specification explores the draws of one record rnd: rnd.x (initGame's
\* lateral position draws), rnd.lane (lane draws), rnd.speed (speed draws),
\* rnd.z (respawn depth draws), rnd.ai (the aggressive AI's draws), rnd.aggr
\* (aggressiveness draws).
\* It keeps the first rnd.enemies enemies of a mode's enemy array.
NumEnemies(config, rnd) ==
    IF config.enemies < rnd.enemies THEN config.enemies ELSE rnd.enemies

Min(a, b) == IF a < b THEN a ELSE b
Max(a, b) == IF a > b THEN a ELSE b
Abs(a)    == IF a < 0 THEN 0 - a ELSE a

\* Math.floor(r * n) for a draw r
FloorTimes(r, n) == (r * n) \div 100

\* The sequences whose i-th element is drawn from sets[i].
RECURSIVE SeqsOf(_)
SeqsOf(sets) ==
    IF sets = << >> THEN { << >> }
    ELSE { << h >> \o t : h \in Head(sets), t \in SeqsOf(Tail(sets)) }

(***************************************************************************)
(* RacingGame3D                                                            *)
(***************************************************************************)
LANES3D == << -2, 0, 2 >>

\* The value of an out-of-range array read, LANES[newLane].
Undefined == -1000

\* LANES[i], i counted from 0 as in the source
LaneAt3D(i) == IF i \in 0 .. 2 THEN LANES3D[i + 1] ELSE Undefined

\* initGame: the enemies Array.from builds, element i counted from 0.
InitEnemies3D(config, rnd) ==
    SeqsOf([i \in 1 .. NumEnemies(config, rnd) |->
        { [x     |-> LaneAt3D(FloorTimes(rx, 3)),
           z     |-> (0 - (i - 1)) * 300 - 500,
           speed |-> 300 + rs * 2,
           lane  |-> FloorTimes(rl, 3),
           aggressiveness |-> IF config.aggressiveAI THEN ra + 100 ELSE 40]
          : rx \in rnd.x, rl \in rnd.lane, rs \in rnd.speed,
            ra \in rnd.aggr }])

\* useState's initial value followed by initGame (the mount effect).
\* speed, position, roadOffset and nitroBoost are in tenths; enemy z and
\* speed in hundredths; aggressiveness in 1/200; score in hundredths.
InitGame3D(mode, enemies) ==
    [mode |-> mode, score |-> 0, time |-> F64Zero, speed |-> 50,
     position |-> 0, isPlaying |-> FALSE, isPaused |-> FALSE,
     gameOver |-> FALSE, playerX |-> F64Zero, enemies |-> enemies,
     roadOffset |-> 0, countdown |-> 3, nitroBoost |-> 1000, health |-> 100,
     perfectDriving |-> 0, lastCollision |-> F64Zero, competitionRank |-> 1]

\* Math.round((newPlayerX + 2) / 2): the nearest integer, halves upwards.
\* v is newPlayerX + 2 in binary64; halving is exact.
PlayerLane3D(newPlayerX) ==
    LET v == F64Add(newPlayerX, F64Int(2))
    IN  IF ~v.neg
        THEN (v.m[1] + 1024) \div 2048
        ELSE IF ~MagLess(<< 1024, 0, 0 >>, v.m) THEN 0
        ELSE LET d == MagSub(v.m, << 1024, 0, 0 >>)
                 whole == d[1] % 2048 = 0 /\ d[2] = 0 /\ d[3] = 0
             IN  0 - ((d[1] \div 2048) + (IF whole THEN 0 ELSE 1))

\* The steering of one frame: ArrowLeft, then ArrowRight on the moved value.
Steer3D(playerX, held) ==
    LET afterLeft ==
            IF "ArrowLeft" \in held /\ F64Less(F64Int(-4), playerX)
            THEN F64Sub(playerX, F64_0_1) ELSE playerX
    IN  IF "ArrowRight" \in held /\ F64Less(afterLeft, F64Int(4))
        THEN F64Add(afterLeft, F64_0_1) ELSE afterLeft

\* The speed after ArrowUp / ArrowDown / neither (tenths).
Throttle3D(speed, held, config) ==
    IF "ArrowUp" \in held THEN Min(speed + 3, config.maxSpeed * 10)
    ELSE IF "ArrowDown" \in held THEN Max(speed - 5, 20)
    ELSE Max(speed - 1, 50)

\* A nitro condition that does not ask for the mode's hasNitro; the claim
\* about mode-gated features must tell it from the code's.
UsedNitroAnyMode(prev, held, config) ==
    "ShiftLeft" \in held /\ prev.nitroBoost > 0

\* Nitro is consumed in this frame.
UsedNitro3D(prev, held, config) ==
    config.hasNitro /\ "ShiftLeft" \in held /\ prev.nitroBoost > 0

\* A nitro step without the cap at maxSpeed + 5; the nitro claim must tell
\* it from the code's.
BoostUncapped(speed, used, config) == IF used THEN speed + 8 ELSE speed

\* The speed after the nitro step (tenths).
Boost3D(speed, used, config) ==
    IF used THEN Min(speed + 8, (config.maxSpeed + 5) * 10) ELSE speed

\* A nitro meter that is drained without the floor at 0; the meter claims
\* must tell it from the code's.
NitroUnfloored(prev, used, config) ==
    IF used THEN prev.nitroBoost - 5
    ELSE IF config.hasNitro THEN Min(prev.nitroBoost + 1, 1000)
    ELSE prev.nitroBoost

\* The nitro meter after the nitro step (tenths).
Nitro3D(prev, used, config) ==
    IF used THEN Max(prev.nitroBoost - 5, 0)
    ELSE IF config.hasNitro THEN Min(prev.nitroBoost + 1, 1000)
    ELSE prev.nitroBoost

\* What the enemies' map callback can return for one enemy: a set, one
\* element per outcome of the Math.random() calls it makes.  playerLane is
\* Math.round((newPlayerX + 2) / 2).
EnemyAfter3D(enemy, playerLane, config, rnd) ==
    IF enemy.z + enemy.speed > 1500
    THEN { [enemy EXCEPT !.x = LaneAt3D(FloorTimes(rl, 3)),
                         !.z = (0 - 2000) - rz * 10,
                         !.lane = FloorTimes(rl, 3),
                         !.speed = 300 + rs * 3]
           : rz \in rnd.z, rl \in rnd.lane, rs \in rnd.speed }
    ELSE IF config.aggressiveAI /\ enemy.aggressiveness # 0
            /\ Abs(enemy.z + enemy.speed) < 500
    THEN { IF r * 20 < enemy.aggressiveness
              /\ Abs(enemy.lane - playerLane) = 1
           THEN [enemy EXCEPT !.x = LaneAt3D(playerLane),
                              !.z = enemy.z + enemy.speed,
                              !.lane = playerLane]
           ELSE [enemy EXCEPT !.z = enemy.z + enemy.speed]
           : r \in rnd.ai }
    ELSE { [enemy EXCEPT !.z = enemy.z + enemy.speed] }

EnemiesAfterLane3D(enemies, playerLane, config, rnd) ==
    SeqsOf([i \in 1 .. Len(enemies) |->
              EnemyAfter3D(enemies[i], playerLane, config, rnd)])

EnemiesAfter3D(enemies, newPlayerX, config, rnd) ==
    EnemiesAfterLane3D(enemies, PlayerLane3D(newPlayerX), config, rnd)

\* The rectangle test of the collision loop: playerRect.x and enemyRect.x in
\* binary64, width 0.8; playerRect.z = -0.8, enemyRect.z = enemy.z - 0.8 and
\* height 1.6 in hundredths.
Overlap3D(playerRectX, enemyRectX, enemyZ) ==
    /\ F64Less(playerRectX, F64Add(enemyRectX, F64_0_8))
    /\ F64Less(enemyRectX, F64Add(playerRectX, F64_0_8))
    /\ -80 < (enemyZ - 80) + 160
    /\ -80 + 160 > enemyZ - 80

\* An enemy whose x is undefined has NaN coordinates, and every comparison
\* with NaN is false.
Hits3D(newPlayerX, enemy) ==
    /\ enemy.x # Undefined
    /\ Overlap3D(F64Sub(newPlayerX, F64_0_4),
                 F64Sub(F64Int(enemy.x), F64_0_4), enemy.z)

\* collisionDetected after the loop over the enemies
CollisionDetected3D(newPlayerX, enemies) ==
    \E i \in 1 .. Len(enemies) : Hits3D(newPlayerX, enemies[i])

\* A multiplier in which the perfect-driving bonus replaces the nitro bonus
\* instead of adding to it; the scoring claim must tell it from the code's.
MultiplierLargestBonus(usedNitro, perfectDriving, newSpeed, config) ==
    10 + (IF perfectDriving > 60 THEN 3
          ELSE IF config.hasNitro /\ usedNitro THEN 5 ELSE 0)
       + (IF newSpeed > config.maxSpeed * 9 THEN 2 ELSE 0)

\* scoreMultiplier, in tenths
ScoreMultiplier3D(usedNitro, perfectDriving, newSpeed, config) ==
    10 + (IF config.hasNitro /\ usedNitro THEN 5 ELSE 0)
       + (IF perfectDriving > 60 THEN 3 ELSE 0)
       + (IF newSpeed > config.maxSpeed * 9 THEN 2 ELSE 0)

\* A scoring that counts only the speed above the cruising speed 5; the
\* score claims must tell it from the code's.
ScoreGainAboveCruise(newSpeed, multiplier) == (newSpeed - 50) * multiplier * 10

\* newSpeed * 10 * scoreMultiplier, in hundredths
ScoreGain3D(newSpeed, multiplier) == newSpeed * multiplier * 10

\* A collision resolution that takes the health branch in every mode; the
\* collision claims must tell it from the code's.
ResolveByHealth(prev, collisionDetected, config) ==
    IF ~collisionDetected
    THEN [health |-> prev.health, gameOver |-> prev.gameOver,
          isPlaying |-> prev.isPlaying]
    ELSE [health |-> Max(prev.health - 10, 0),
          gameOver |-> IF prev.health <= 10 THEN TRUE ELSE prev.gameOver,
          isPlaying |-> IF prev.health <= 10 THEN FALSE ELSE prev.isPlaying]

\* A collision resolution that charges a collision twice; the health claim
\* must tell it from the code's.
ResolveTwice(prev, collisionDetected, config) ==
    IF ~collisionDetected
    THEN [health |-> prev.health, gameOver |-> prev.gameOver,
          isPlaying |-> prev.isPlaying]
    ELSE IF config.hasHealth
    THEN [health |-> Max(prev.health - 20, 0),
          gameOver |-> IF prev.health <= 20 THEN TRUE ELSE prev.gameOver,
          isPlaying |-> IF prev.health <= 20 THEN FALSE ELSE prev.isPlaying]
    ELSE [health |-> prev.health, gameOver |-> TRUE, isPlaying |-> FALSE]

\* The collision resolution: health, gameOver and isPlaying after it.
Resolve3D(prev, collisionDetected, config) ==
    IF ~collisionDetected
    THEN [health |-> prev.health, gameOver |-> prev.gameOver,
          isPlaying |-> prev.isPlaying]
    ELSE IF config.hasHealth
    THEN LET h == Max(prev.health - 10, 0)
         IN  [health |-> h,
              gameOver |-> IF h <= 0 THEN TRUE ELSE prev.gameOver,
              isPlaying |-> IF h <= 0 THEN FALSE ELSE prev.isPlaying]
    ELSE [health |-> prev.health, gameOver |-> TRUE, isPlaying |-> FALSE]

\* A rank that counts the enemies ahead without the player's own place; the
\* rank claim must tell it from the code's.
RankFromZero(enemies, config) ==
    Min(Cardinality({i \in 1 .. Len(enemies) : enemies[i].z > 0}),
        config.enemies + 1)

\* rank: 1 + the enemies ahead of the player, capped
Rank3D(enemies, config) ==
    Min(1 + Cardinality({i \in 1 .. Len(enemies) : enemies[i].z > 0}),
        config.enemies + 1)

\* An end check that no time satisfies; the claim about the eventual end
\* must tell it from the code's.
TimeNeverUp(time, config) ==
    config.timeLimit # Infinity /\ F64Less(time, F64Zero)

\* An end check without the test for Infinity; the time-limit claims must
\* tell it from the code's.
TimeUpUnguarded(time, config) == F64Leq(F64Int(config.timeLimit), time)

\* The end check of the updater: the time limit is reached.
TimeUp(time, config) ==
    config.timeLimit # Infinity /\ F64Leq(F64Int(config.timeLimit), time)

\* What the updater hands back: the new state, whether it called onGameEnd
\* (newState.gameOver), and whether it detected a collision.
Result(newState, collision) ==
    [state |-> newState, ended |-> newState.gameOver, collision |-> collision]

\* The updater from the collision resolution on: resolution, score, rank and
\* end check.
Conclude3D(prev, config, newEnemies, newTime, newPlayerX, usedNitro, newSpeed, perfect, collision) ==
    Result(
        [prev EXCEPT
           !.time = newTime,
           !.nitroBoost = Nitro3D(prev, usedNitro, config),
           !.playerX = newPlayerX,
           !.speed = newSpeed,
           !.position = prev.position + newSpeed,
           !.roadOffset = (prev.roadOffset + newSpeed) % 100,
           !.perfectDriving = perfect,
           !.enemies = newEnemies,
           !.lastCollision = IF collision THEN newTime ELSE prev.lastCollision,
           !.health = Resolve3D(prev, collision, config).health,
           !.gameOver = Resolve3D(prev, collision, config).gameOver
                           \/ TimeUp(newTime, config),
           !.isPlaying = Resolve3D(prev, collision, config).isPlaying
                           /\ ~TimeUp(newTime, config),
           !.score = prev.score
                       + ScoreGain3D(newSpeed,
                            ScoreMultiplier3D(usedNitro, perfect, newSpeed, config)),
           !.competitionRank = IF config.aggressiveAI
                               THEN Rank3D(newEnemies, config)
                               ELSE prev.competitionRank],
        collision)

\* A perfect-driving counter that counts a streak and starts over when the
\* player is off-centre or slow; the counter claim must tell it from the
\* code's.
PerfectStreak(prev, newPlayerX, newSpeed, config) ==
    IF MagLess(newPlayerX.m, << 1024, 0, 0 >>) /\ newSpeed > config.maxSpeed * 8
    THEN prev.perfectDriving + 1 ELSE 0

\* The perfect-driving counter after the input handling.
Perfect3D(prev, newPlayerX, newSpeed, config) ==
    IF MagLess(newPlayerX.m, << 1024, 0, 0 >>) /\ newSpeed > config.maxSpeed * 8
    THEN prev.perfectDriving + 1 ELSE prev.perfectDriving

\* The updater from the perfect-driving counter on.
Advance3D(prev, config, newEnemies, newTime, newPlayerX, usedNitro, newSpeed) ==
    Conclude3D(prev, config, newEnemies, newTime, newPlayerX, usedNitro, newSpeed,
               Perfect3D(prev, newPlayerX, newSpeed, config),
               CollisionDetected3D(newPlayerX, newEnemies))

\* The updater with the mode's configuration at hand.
Input3D(prev, config, held, newEnemies) ==
    Advance3D(prev, config, newEnemies,
              F64Add(prev.time, F64_1_60),
              Steer3D(prev.playerX, held),
              UsedNitro3D(prev, held, config),
              Boost3D(Throttle3D(prev.speed, held, config),
                      UsedNitro3D(prev, held, config), config))

\* The setGameState updater of RacingGame3D's gameLoop, applied to prev with
\* the keys held and newEnemies, one of the results of the enemies' map.
Update3D(prev, held, newEnemies) ==
    Input3D(prev, getModeConfig3D(prev.mode), held, newEnemies)

(***************************************************************************)
(* RacingGame (2D)                                                         *)
(***************************************************************************)
GAME_HEIGHT  == 600
ROAD_WIDTH   == 400
PLAYER_SPEED == 5
ENEMY_SPEED  == 3
LANES2D == << -150, -50, 50, 150 >>

LaneAt2D(i) == IF i \in 0 .. 3 THEN LANES2D[i + 1] ELSE Undefined

\* initGame: enemy y and speed in hundredths
InitEnemies2D(config, rnd) ==
    SeqsOf([i \in 1 .. NumEnemies(config, rnd) |->
        { [x     |-> LaneAt2D(FloorTimes(rx, 4)),
           y     |-> ((0 - (i - 1)) * 150 - 100) * 100,
           speed |-> ENEMY_SPEED * 100 + rs * 2,
           lane  |-> FloorTimes(rl, 4)]
          : rx \in rnd.x, rl \in rnd.lane, rs \in rnd.speed }])

InitGame2D(mode, enemies) ==
    [mode |-> mode, score |-> 0, time |-> F64Zero, speed |-> 0,
     position |-> 0, isPlaying |-> FALSE, isPaused |-> FALSE,
     gameOver |-> FALSE, playerX |-> F64Zero, enemies |-> enemies,
     roadOffset |-> 0, countdown |-> 3]

Steer2D(playerX, held) ==
    LET afterLeft ==
            IF "ArrowLeft" \in held
               /\ F64Less(F64Int((0 - ROAD_WIDTH) \div 2 + 40), playerX)
            THEN F64Sub(playerX, F64Int(PLAYER_SPEED)) ELSE playerX
    IN  IF "ArrowRight" \in held
           /\ F64Less(afterLeft, F64Int(ROAD_WIDTH \div 2 - 40))
        THEN F64Add(afterLeft, F64Int(PLAYER_SPEED)) ELSE afterLeft

Throttle2D(speed, held) ==
    IF "ArrowUp" \in held THEN Min(speed + 5, 150)
    ELSE IF "ArrowDown" \in held THEN Max(speed - 10, 0)
    ELSE Max(speed - 2, 50)

\* A 2D map callback that respawns ahead of -200 instead of behind it; the
\* recycling claim must tell it from the code's.
EnemyAfterAhead2D(enemy, newSpeed, rnd) ==
    IF enemy.y + enemy.speed + newSpeed * 5 > (GAME_HEIGHT + 100) * 100
    THEN { [enemy EXCEPT !.x = LaneAt2D(FloorTimes(rl, 4)),
                         !.y = (0 - 20000) + rz * 500,
                         !.speed = ENEMY_SPEED * 100 + rs * 3]
           : rz \in rnd.z, rl \in rnd.lane, rs \in rnd.speed }
    ELSE { [enemy EXCEPT !.y = enemy.y + enemy.speed + newSpeed * 5] }

\* The enemies' map callback of the 2D game; newSpeed in tenths.
EnemyAfter2D(enemy, newSpeed, rnd) ==
    IF enemy.y + enemy.speed + newSpeed * 5 > (GAME_HEIGHT + 100) * 100
    THEN { [enemy EXCEPT !.x = LaneAt2D(FloorTimes(rl, 4)),
                         !.y = (0 - 20000) - rz * 500,
                         !.speed = ENEMY_SPEED * 100 + rs * 3]
           : rz \in rnd.z, rl \in rnd.lane, rs \in rnd.speed }
    ELSE { [enemy EXCEPT !.y = enemy.y + enemy.speed + newSpeed * 5] }

EnemiesAfter2D(enemies, newSpeed, rnd) ==
    SeqsOf([i \in 1 .. Len(enemies) |-> EnemyAfter2D(enemies[i], newSpeed, rnd)])

\* The rectangle test of the 2D collision loop (50 x 80 rectangles);
\* playerRect.y = GAME_HEIGHT - 120, enemy y in hundredths.
Overlap2D(playerRectX, enemyRectX, enemyY) ==
    /\ F64Less(playerRectX, F64Add(enemyRectX, F64Int(50)))
    /\ F64Less(enemyRectX, F64Add(playerRectX, F64Int(50)))
    /\ (GAME_HEIGHT - 120) * 100 < enemyY + 8000
    /\ (GAME_HEIGHT - 120) * 100 + 8000 > enemyY

Hits2D(newPlayerX, enemy) ==
    Overlap2D(F64Sub(newPlayerX, F64Int(25)),
              F64Sub(F64Int(enemy.x), F64Int(25)), enemy.y)

CollisionDetected2D(newPlayerX, enemies) ==
    \E i \in 1 .. Len(enemies) : Hits2D(newPlayerX, enemies[i])

\* newSpeed * 10, in hundredths
ScoreGain2D(newSpeed) == newSpeed * 100

\* The 2D updater from the collision loop on.
Conclude2D(prev, config, newEnemies, newTime, newPlayerX, newSpeed, collision) ==
    Result(
        [prev EXCEPT
           !.time = newTime,
           !.playerX = newPlayerX,
           !.speed = newSpeed,
           !.position = prev.position + newSpeed,
           !.roadOffset = (prev.roadOffset + newSpeed) % 1000,
           !.enemies = newEnemies,
           !.gameOver = prev.gameOver \/ collision \/ TimeUp(newTime, config),
           !.isPlaying = prev.isPlaying /\ ~collision /\ ~TimeUp(newTime, config),
           !.score = prev.score + ScoreGain2D(newSpeed)],
        collision)

Advance2D(prev, config, newEnemies, newTime, newPlayerX, newSpeed) ==
    Conclude2D(prev, config, newEnemies, newTime, newPlayerX, newSpeed,
               CollisionDetected2D(newPlayerX, newEnemies))

\* The setGameState updater of RacingGame's gameLoop.
Update2D(prev, held, newEnemies) ==
    Advance2D(prev, getModeConfig2D(prev.mode), newEnemies,
              F64Add(prev.time, F64_1_60),
              Steer2D(prev.playerX, held),
              Throttle2D(prev.speed, held))

\* The results the enemies' map can have in one frame.
EnemiesAfter(variant, prev, held, rnd) ==
    IF variant = "3D"
    THEN EnemiesAfter3D(prev.enemies, Steer3D(prev.playerX, held),
                        getModeConfig3D(prev.mode), rnd)
    ELSE EnemiesAfter2D(prev.enemies, Throttle2D(prev.speed, held), rnd)

Update(variant, prev, held, newEnemies) ==
    IF variant = "3D" THEN Update3D(prev, held, newEnemies)
    ELSE Update2D(prev, held, newEnemies)

InitGames(variant, mode, rnd) ==
    IF variant = "3D"
    THEN { InitGame3D(mode, es) : es \in InitEnemies3D(getModeConfig3D(mode), rnd) }
    ELSE { InitGame2D(mode, es) : es \in InitEnemies2D(getModeConfig2D(mode), rnd) }

(***************************************************************************)
(* State                                                                   *)
(***************************************************************************)
VARIABLES
    appState,      \* Index: "menu", "playing" or "leaderboard"
    selectedMode,  \* Index: the mode handed to the game component
    variant,       \* the game component the page renders: "2D" or "3D"
    session,       \* the number of game components mounted so far
    gameState,     \* the mounted component's gameState, or NoGame
    keys,          \* keysRef.current, the control keys held
    timers,        \* the running countdown intervals: their count variables
    orphans,       \* countdown intervals of unmounted components, still running
    rafLatest,     \* the request whose id gameLoopRef.current holds is pending
    rafStale,      \* the number of other pending requestAnimationFrame requests
    menuTimers,    \* the pending setTimeout calls of handleGameEnd
    endCalls,      \* history: the onGameEnd calls of the mounted component
    frames,        \* history: the updates applied in the mounted component
    collisions,    \* history: the updates of it that detected a collision
    keyEvents,     \* history: the control-key events of the mounted component
    lastStep,      \* history: what the last update did, or NoStep
    leaderboardData,  \* Leaderboard: the entries of each mode, as stored
    addCalls       \* history: the scores handed to addScore, per mode

vars == << appState, selectedMode, variant, session, gameState, keys, timers,
           orphans, rafLatest, rafStale, menuTimers, endCalls, frames,
           collisions, keyEvents, lastStep, leaderboardData, addCalls >>

NoGame == [mode |-> "none"]
NoStep == [kind |-> "none"]

ControlKeys == {"ArrowLeft", "ArrowRight", "ArrowUp", "ArrowDown", "ShiftLeft"}

Mounted == appState = "playing"

Init ==
    /\ appState = "menu"
    /\ selectedMode = "classic"
    /\ variant = "2D"
    /\ session = 0
    /\ gameState = NoGame
    /\ keys = {}
    /\ timers = << >>
    /\ orphans = << >>
    /\ rafLatest = FALSE
    /\ rafStale = 0
    /\ menuTimers = 0
    /\ endCalls = 0
    /\ frames = 0
    /\ collisions = 0
    /\ keyEvents = 0
    /\ lastStep = NoStep
    /\ leaderboardData = [mode \in GameModes |-> << >>]
    /\ addCalls = [mode \in GameModes |-> << >>]

(***************************************************************************)
(* The game-loop effect, deps [isPlaying, isPaused, getModeConfig,         *)
(* onGameEnd].  React runs it after a render in which a dep changed: the   *)
(* cleanup of the previous run (registered only if that run got past the   *)
(* early return) cancels the request gameLoopRef.current names, then the   *)
(* body requests a frame unless it returns early.                          *)
(***************************************************************************)
LoopRuns(state) == state.isPlaying /\ ~state.isPaused

\* rafLatest and rafStale after requestAnimationFrame(gameLoop)
Request(raf) ==
    [latest |-> TRUE, stale |-> raf.stale + (IF raf.latest THEN 1 ELSE 0)]

\* A cancelAnimationFrame that cancels nothing; the claim about the single
\* frame request must tell it from the browser's.
CancelNothing(raf) == raf

\* cancelAnimationFrame(gameLoopRef.current)
Cancel(raf) == [raf EXCEPT !.latest = FALSE]

\* A loop effect whose cleanup cancels nothing; the pause claim must tell it
\* from the code's.
LoopEffectUncancelled(old, new, raf) ==
    IF old.isPlaying = new.isPlaying /\ old.isPaused = new.isPaused THEN raf
    ELSE IF LoopRuns(new) THEN Request(raf) ELSE raf

\* The effect after a render from old to new, on the pending requests raf.
LoopEffect(old, new, raf) ==
    IF old.isPlaying = new.isPlaying /\ old.isPaused = new.isPaused THEN raf
    ELSE LET cleaned == IF LoopRuns(old) THEN Cancel(raf) ELSE raf
         IN  IF LoopRuns(new) THEN Request(cleaned) ELSE cleaned

\* An unmount whose cleanup leaves the frame request pending; the
\* cancellation claim must tell it from the code's.
UnmountUncancelled ==
    /\ gameState' = NoGame
    /\ keys' = {}
    /\ orphans' = orphans \o timers
    /\ timers' = << >>
    /\ UNCHANGED << rafLatest, rafStale >>
    /\ endCalls' = 0
    /\ frames' = 0
    /\ collisions' = 0
    /\ keyEvents' = 0
    /\ lastStep' = NoStep

\* The component is unmounted: the cleanups run, the countdown intervals are
\* not cleared.
Unmount ==
    /\ gameState' = NoGame
    /\ keys' = {}
    /\ orphans' = orphans \o timers
    /\ timers' = << >>
    /\ rafLatest' = IF LoopRuns(gameState) THEN FALSE ELSE rafLatest
    /\ rafStale' = rafStale
    /\ endCalls' = 0
    /\ frames' = 0
    /\ collisions' = 0
    /\ keyEvents' = 0
    /\ lastStep' = NoStep

(***************************************************************************)
(* Bounds of the explored behaviours                                       *)
(***************************************************************************)
MaxTimers     == 2     \* countdown intervals running at once
MaxEndCalls   == 2     \* onGameEnd calls followed in one session
MaxMenuTimers == 2     \* pending handleGameEnd timeouts

(***************************************************************************)
(* Index                                                                   *)
(***************************************************************************)
\* handleSelectMode, and the mount of the game component: useState's initial
\* value and the initGame effect.
SelectMode(games, rnd) ==
    /\ appState = "menu"
    /\ \E game \in games :
         \E g \in InitGames(game[1], game[2], rnd) :
            /\ variant' = game[1]
            /\ selectedMode' = game[2]
            /\ gameState' = g
    /\ appState' = "playing"
    /\ session' = session + 1
    /\ keys' = {}
    /\ timers' = << >>
    /\ endCalls' = 0
    /\ frames' = 0
    /\ collisions' = 0
    /\ keyEvents' = 0
    /\ lastStep' = NoStep
    /\ UNCHANGED << orphans, rafLatest, rafStale, menuTimers >>
    /\ UNCHANGED << leaderboardData, addCalls >>

\* handleShowLeaderboard
ShowLeaderboard ==
    /\ appState = "menu"
    /\ appState' = "leaderboard"
    /\ UNCHANGED << selectedMode, variant, session, gameState, keys, timers,
                    orphans, rafLatest, rafStale, menuTimers, endCalls, frames,
                    collisions, keyEvents, lastStep >>
    /\ UNCHANGED << leaderboardData, addCalls >>

\* handleBackToMenu, from the leaderboard
LeaderboardBack ==
    /\ appState = "leaderboard"
    /\ appState' = "menu"
    /\ UNCHANGED << selectedMode, variant, session, gameState, keys, timers,
                    orphans, rafLatest, rafStale, menuTimers, endCalls, frames,
                    collisions, keyEvents, lastStep >>
    /\ UNCHANGED << leaderboardData, addCalls >>

\* handleBackToMenu, from the game: the Back button, or Escape in handleKeyDown
Back ==
    /\ Mounted
    /\ appState' = "menu"
    /\ Unmount
    /\ UNCHANGED << selectedMode, variant, session, menuTimers >>
    /\ UNCHANGED << leaderboardData, addCalls >>

\* The timeout handleGameEnd set fires: setAppState('menu').
MenuTimeout ==
    /\ menuTimers > 0
    /\ menuTimers' = menuTimers - 1
    /\ appState' = "menu"
    /\ IF Mounted THEN Unmount
       ELSE UNCHANGED << gameState, keys, timers, orphans, rafLatest, rafStale,
                         endCalls, frames, collisions, keyEvents, lastStep >>
    /\ UNCHANGED << selectedMode, variant, session >>
    /\ UNCHANGED << leaderboardData, addCalls >>

(***************************************************************************)
(* The game component's handlers                                           *)
(***************************************************************************)
\* handleKeyDown, Space, first branch: startCountdown
SpaceStart ==
    /\ Mounted
    /\ ~gameState.isPlaying /\ ~gameState.gameOver
    /\ Len(timers) < MaxTimers
    /\ timers' = Append(timers, 3)
    /\ UNCHANGED << appState, selectedMode, variant, session, gameState, keys,
                    orphans, rafLatest, rafStale, menuTimers, endCalls, frames,
                    collisions, keyEvents, lastStep >>
    /\ UNCHANGED << leaderboardData, addCalls >>

\* handleKeyDown, Space, second branch: toggle isPaused
SpacePause ==
    /\ Mounted
    /\ gameState.isPlaying
    /\ LET new == [gameState EXCEPT !.isPaused = ~gameState.isPaused]
           raf == LoopEffect(gameState, new,
                             [latest |-> rafLatest, stale |-> rafStale])
       IN  /\ gameState' = new
           /\ rafLatest' = raf.latest
           /\ rafStale' = raf.stale
    /\ UNCHANGED << appState, selectedMode, variant, session, keys, timers,
                    orphans, menuTimers, endCalls, frames, collisions,
                    keyEvents, lastStep >>
    /\ UNCHANGED << leaderboardData, addCalls >>

\* handleKeyDown for a control key: keysRef.current.add
KeyDown(pressable, maxKeyEvents) ==
    /\ Mounted
    /\ keyEvents < maxKeyEvents
    /\ \E k \in pressable \ keys : keys' = keys \cup {k}
    /\ keyEvents' = keyEvents + 1
    /\ UNCHANGED << appState, selectedMode, variant, session, gameState, timers,
                    orphans, rafLatest, rafStale, menuTimers, endCalls, frames,
                    collisions, lastStep >>
    /\ UNCHANGED << leaderboardData, addCalls >>

\* handleKeyUp: keysRef.current.delete
KeyUp(maxKeyEvents) ==
    /\ Mounted
    /\ keyEvents < maxKeyEvents
    /\ \E k \in keys : keys' = keys \ {k}
    /\ keyEvents' = keyEvents + 1
    /\ UNCHANGED << appState, selectedMode, variant, session, gameState, timers,
                    orphans, rafLatest, rafStale, menuTimers, endCalls, frames,
                    collisions, lastStep >>
    /\ UNCHANGED << leaderboardData, addCalls >>

\* One tick of a countdown interval of the mounted component.  The first
\* updater shows count; React may run it at once or, with the update queued,
\* at the next render, after count-- (shown is the value it then reads).
CountdownTick ==
    /\ Mounted
    /\ \E i \in 1 .. Len(timers) : \E shown \in {timers[i], timers[i] - 1} :
         LET count == timers[i] - 1
             rest  == SubSeq(timers, 1, i - 1) \o SubSeq(timers, i + 1, Len(timers))
             new   == IF count < 0
                      THEN [gameState EXCEPT !.isPlaying = TRUE, !.countdown = 0]
                      ELSE [gameState EXCEPT !.countdown = shown]
             raf   == LoopEffect(gameState, new,
                                 [latest |-> rafLatest, stale |-> rafStale])
         IN  /\ timers' = IF count < 0 THEN rest ELSE [timers EXCEPT ![i] = count]
             /\ gameState' = new
             /\ rafLatest' = raf.latest
             /\ rafStale' = raf.stale
    /\ UNCHANGED << appState, selectedMode, variant, session, keys, orphans,
                    menuTimers, endCalls, frames, collisions, keyEvents, lastStep >>
    /\ UNCHANGED << leaderboardData, addCalls >>

\* One tick of a countdown interval whose component is unmounted: its
\* setGameState calls change nothing.
OrphanTick ==
    /\ \E i \in 1 .. Len(orphans) :
         LET count == orphans[i] - 1
             rest  == SubSeq(orphans, 1, i - 1) \o SubSeq(orphans, i + 1, Len(orphans))
         IN  orphans' = IF count < 0 THEN rest ELSE [orphans EXCEPT ![i] = count]
    /\ UNCHANGED << appState, selectedMode, variant, session, gameState, keys,
                    timers, rafLatest, rafStale, menuTimers, endCalls, frames,
                    collisions, keyEvents, lastStep >>
    /\ UNCHANGED << leaderboardData, addCalls >>

\* The pending requests one of which the browser can run next.
Runnable ==
    (IF rafLatest THEN {"latest"} ELSE {}) \cup (IF rafStale > 0 THEN {"stale"} ELSE {})

\* The pending requests after the browser took one of them to run it.
Fired(which) ==
    IF which = "latest" THEN [latest |-> FALSE, stale |-> rafStale]
    ELSE [latest |-> rafLatest, stale |-> rafStale - 1]

\* One animation frame: gameLoop.  The updater is applied to the current
\* state with the keys held, the next frame is requested, and React renders
\* and runs the effects.  onGameEnd is Index's handleGameEnd, which sets a
\* timeout.
Frame(rnd, maxFrames) ==
    /\ Mounted
    /\ frames < maxFrames
    /\ \E which \in Runnable :
       \E newEnemies \in EnemiesAfter(variant, gameState, keys, rnd) :
       \E r \in { Update(variant, gameState, keys, newEnemies) } :
       \E raf \in { LoopEffect(gameState, r.state, Request(Fired(which))) } :
             /\ r.ended => endCalls < MaxEndCalls /\ menuTimers < MaxMenuTimers
             /\ gameState' = r.state
             /\ rafLatest' = raf.latest
             /\ rafStale' = raf.stale
             /\ endCalls' = endCalls + (IF r.ended THEN 1 ELSE 0)
             /\ menuTimers' = menuTimers + (IF r.ended THEN 1 ELSE 0)
             /\ collisions' = collisions + (IF r.collision THEN 1 ELSE 0)
             /\ lastStep' = [kind |-> "update", prev |-> gameState, held |-> keys,
                             collision |-> r.collision, ended |-> r.ended]
    /\ frames' = frames + 1
    /\ UNCHANGED << appState, selectedMode, variant, session, keys, timers,
                    orphans, keyEvents >>
    /\ UNCHANGED << leaderboardData, addCalls >>

(***************************************************************************)
(* Spec: the page and its first game component under every interleaving of *)
(* key events, countdown ticks, frames and timeouts                        *)
(***************************************************************************)
LifeFrames    == 2     \* updates followed in one session
LifeKeyEvents == 2     \* control-key events followed in one session

\* The component and mode pairs the page can mount.
LifeGames == { << "2D", "classic" >>, << "3D", "classic" >>, << "3D", "competition" >> }

LifeDraws ==
    [x |-> {40}, lane |-> {40}, speed |-> {75}, z |-> {0}, ai |-> {0, 99},
     aggr |-> {50}, enemies |-> 1]

Next ==
    \/ session = 0 /\ SelectMode(LifeGames, LifeDraws)
    \/ ShowLeaderboard
    \/ LeaderboardBack
    \/ Back
    \/ MenuTimeout
    \/ SpaceStart
    \/ SpacePause
    \/ KeyDown({"ArrowLeft"}, LifeKeyEvents)
    \/ KeyUp(LifeKeyEvents)
    \/ CountdownTick
    \/ OrphanTick
    \/ Frame(LifeDraws, LifeFrames)

Spec == Init /\ [][Next]_vars

(***************************************************************************)
(* Claims about the session's life cycle                                   *)
(***************************************************************************)
\* C1: onGameEnd is called exactly once per session: the mounted component
\* has called it 0 times while gameOver is false and exactly once when
\* gameOver is true, whatever frames, key events and ticks follow.
C1_SingleNotification ==
    Mounted => endCalls = (IF gameState.gameOver THEN 1 ELSE 0)

\* C2: ended is terminal: from a state with gameOver true, every step that
\* keeps the component mounted leaves gameOver true and isPlaying false, and
\* leaves no frame request pending.
C2_EndedIsTerminal ==
    [][(Mounted /\ gameState.gameOver /\ Mounted')
          => /\ gameState'.gameOver
             /\ ~gameState'.isPlaying
             /\ ~rafLatest' /\ rafStale' = 0]_vars

\* C3: the updater applied to a state that is not in the playing state (in
\* particular one with gameOver true) changes no field of the state and
\* calls no collaborator.
PlayingState(state) == state.isPlaying /\ ~state.isPaused /\ ~state.gameOver

C3_TerminalIdempotence ==
    [][(Mounted /\ frames' = frames + 1 /\ ~PlayingState(gameState))
          => /\ gameState' = gameState
             /\ endCalls' = endCalls]_vars

\* C4: exactly one lifecycle state holds in every state of a mounted
\* component.
NotStarted == timers = << >> /\ ~gameState.isPlaying /\ ~gameState.gameOver
Countdown  == timers # << >> /\ ~gameState.isPlaying /\ ~gameState.gameOver
Playing    == gameState.isPlaying /\ ~gameState.isPaused /\ ~gameState.gameOver
Paused     == gameState.isPlaying /\ gameState.isPaused /\ ~gameState.gameOver
Ended      == gameState.gameOver /\ ~gameState.isPlaying

C4_OneLifecycleState ==
    Mounted =>
       /\ Cardinality({s \in {"notStarted", "countdown", "playing", "paused", "ended"} :
             CASE s = "notStarted" -> NotStarted
               [] s = "countdown"  -> Countdown
               [] s = "playing"    -> Playing
               [] s = "paused"     -> Paused
               [] OTHER            -> Ended}) = 1
       /\ ~(gameState.isPlaying /\ gameState.gameOver)
       /\ (Playing \/ Paused \/ Ended) => timers = << >>

(***************************************************************************)
(* SpecSteer: one session in which the player presses Space once and       *)
(* steers with ArrowLeft and ArrowRight.  The enemies keep to the right    *)
(* lane.                                                                   *)
(***************************************************************************)
SteerFrames    == 42    \* updates followed
SteerKeyEvents == 2     \* steering-key events followed

SteerGames == { << "2D", "classic" >>, << "3D", "classic" >>, << "3D", "competition" >> }

SteerDraws ==
    [x |-> {99}, lane |-> {99}, speed |-> {75}, z |-> {0}, ai |-> {99},
     aggr |-> {50}, enemies |-> 1]

NextSteer ==
    \/ session = 0 /\ SelectMode(SteerGames, SteerDraws)
    \/ timers = << >> /\ SpaceStart
    \/ CountdownTick
    \/ KeyDown({"ArrowLeft", "ArrowRight"}, SteerKeyEvents)
    \/ KeyUp(SteerKeyEvents)
    \/ Frame(SteerDraws, SteerFrames)

SpecSteer == Init /\ [][NextSteer]_vars

\* C5: the player's lateral position stays within the road bounds in every
\* state: [-4, 4] in RacingGame3D, [-160, 160] in RacingGame.
C5_WithinRoadBounds ==
    Mounted =>
       IF variant = "3D"
       THEN /\ F64Leq(F64Int(-4), gameState.playerX)
            /\ F64Leq(gameState.playerX, F64Int(4))
       ELSE /\ F64Leq(F64Int(-160), gameState.playerX)
            /\ F64Leq(gameState.playerX, F64Int(160))

(***************************************************************************)
(* SpecRace: one session run to its end.  The player chooses the keys to   *)
(* hold (ArrowUp, ArrowDown, ArrowRight, ShiftLeft) before the first       *)
(* update, presses Space once and lets the race run.  An enemy starts in   *)
(* the second lane or in the right lane; respawned enemies take the right  *)
(* lane.                                                                   *)
(***************************************************************************)
RaceFrames    == 7202   \* updates followed
RaceKeyEvents == 1      \* keys pressed before the first update

RaceGames == {"2D", "3D"} \X GameModes

RaceDraws ==
    [x |-> {40, 99}, lane |-> {99}, speed |-> {75}, z |-> {0}, ai |-> {99},
     aggr |-> {50}, enemies |-> 1]

NextRace ==
    \/ session = 0 /\ SelectMode(RaceGames, RaceDraws)
    \/ timers = << >> /\ SpaceStart
    \/ CountdownTick
    \/ frames = 0 /\ KeyDown({"ArrowUp", "ArrowDown", "ArrowRight", "ShiftLeft"},
                          RaceKeyEvents)
    \/ Frame(RaceDraws, RaceFrames)

SpecRace == Init /\ [][NextRace]_vars

\* The configuration of the mounted game, with the fields both games have.
ModeConfig ==
    IF variant = "3D" THEN getModeConfig3D(gameState.mode)
    ELSE getModeConfig2D(gameState.mode)

\* C6: in RacingGame3D speed >= 2 and speed <= maxSpeed + 5 in every state,
\* and speed <= maxSpeed in every state produced by an update in which nitro
\* was not consumed; in RacingGame speed is within [0, 15].  (Tenths.)
C6_SpeedWithinBounds ==
    Mounted =>
       IF variant = "3D"
       THEN /\ gameState.speed >= 20
            /\ gameState.speed <= (ModeConfig.maxSpeed + 5) * 10
            /\ (lastStep.kind = "update"
                  /\ ~UsedNitro3D(lastStep.prev, lastStep.held, ModeConfig))
                 => gameState.speed <= ModeConfig.maxSpeed * 10
       ELSE gameState.speed >= 0 /\ gameState.speed <= 150

\* C7: an update executed while playing never lowers the score, whatever
\* keys are held and also when it ends the game.
C7_MonotonicScore ==
    (Mounted /\ lastStep.kind = "update" /\ PlayingState(lastStep.prev))
       => gameState.score >= lastStep.prev.score

\* C7's case: the update that ends the game by time-out with the brake held
\* at the floor speed has added to the score.
C7_BrakingToTheEnd ==
    /\ Mounted /\ lastStep.kind = "update" /\ PlayingState(lastStep.prev)
    /\ "ArrowDown" \in lastStep.held
    /\ variant = "3D" /\ gameState.speed = 20
    /\ lastStep.ended /\ ~lastStep.collision
    /\ gameState.score > lastStep.prev.score

\* The update on which the accumulated binary64 time first reaches a limit
\* of timeLimit seconds: one update after timeLimit * 60, because the sum of
\* timeLimit * 60 roundings of 1/60 is below timeLimit.
EndUpdate(timeLimit) == timeLimit * 60 + 1

\* C8, as the code has it: without a collision the session is over exactly
\* from update 1801 (quickRace), 3601 (timeAttack), 5401 (classic), 7201
\* (competition) on, and never in endless mode.
C8_EndsAfterLimit ==
    (Mounted /\ collisions = 0) =>
       (gameState.gameOver <=>
          (ModeConfig.timeLimit # Infinity
             /\ frames >= EndUpdate(ModeConfig.timeLimit)))

\* C8's case: competition has run 7201 updates without a collision and is
\* over.
C8_CompetitionTimedOut ==
    /\ Mounted /\ collisions = 0 /\ gameState.mode = "competition"
    /\ frames = 7201 /\ gameState.gameOver /\ lastStep.ended

\* C8 as stated: without a collision the session is over exactly from update
\* 1800, 3600, 5400, 7200 on, and never in endless mode.
C8_EndsAtLimit ==
    (Mounted /\ collisions = 0) =>
       (gameState.gameOver <=>
          (ModeConfig.timeLimit # Infinity
             /\ frames >= ModeConfig.timeLimit * 60))

\* The mounted game's mode has the health system.
HasHealth == variant = "3D" /\ getModeConfig3D(gameState.mode).hasHealth

\* After the enemy update an enemy rectangle overlaps the player rectangle.
Overlap ==
    IF variant = "3D"
    THEN CollisionDetected3D(gameState.playerX, gameState.enemies)
    ELSE CollisionDetected2D(gameState.playerX, gameState.enemies)

\* C9: in a mode without hasHealth, an update after which an enemy overlaps
\* the player has set gameOver and cleared isPlaying; an update from a
\* running game after which no enemy overlaps and the time limit is not
\* reached has left gameOver false.
C9_CollisionEndsGame ==
    (Mounted /\ lastStep.kind = "update" /\ ~HasHealth) =>
       /\ Overlap => (gameState.gameOver /\ ~gameState.isPlaying)
       /\ (~Overlap /\ ~TimeUp(gameState.time, ModeConfig)
             /\ ~lastStep.prev.gameOver) => ~gameState.gameOver

\* C9's case: an update of the 2D game, running until then, after which the
\* enemy overlaps the player.
C9_Crashed2D ==
    /\ Mounted /\ variant = "2D" /\ lastStep.kind = "update"
    /\ ~lastStep.prev.gameOver /\ lastStep.prev.isPlaying
    /\ Overlap /\ gameState.gameOver /\ ~gameState.isPlaying

(***************************************************************************)
(* SpecHealth: one competition session of RacingGame3D with two enemies    *)
(* that keep to the player's lane, so that the player collides until the   *)
(* health is used up.  The player presses Space once and may press ArrowUp *)
(* or ShiftLeft at any time.                                               *)
(***************************************************************************)
HealthFrames    == 75   \* updates followed
HealthKeyEvents == 1    \* keys pressed

HealthDraws ==
    [x |-> {40}, lane |-> {40}, speed |-> {42}, z |-> {0}, ai |-> {50},
     aggr |-> {50}, enemies |-> 2]

NextHealth ==
    \/ session = 0 /\ SelectMode({ << "3D", "competition" >> }, HealthDraws)
    \/ timers = << >> /\ SpaceStart
    \/ CountdownTick
    \/ KeyDown({"ArrowUp", "ShiftLeft"}, HealthKeyEvents)
    \/ Frame(HealthDraws, HealthFrames)

SpecHealth == Init /\ [][NextHealth]_vars

\* The enemies whose rectangle overlaps the player's in the state.
Overlapping ==
    {i \in 1 .. Len(gameState.enemies) :
        Hits3D(gameState.playerX, gameState.enemies[i])}

\* C10: in competition mode health is max(100 - 10k, 0) after k updates
\* with a collision, whatever updates without one lie between; an update
\* costs 10 health if any enemy overlaps, however many do, and nothing
\* otherwise; the game is over exactly from the 10th collision on.
C10_HealthPerCollision ==
    (Mounted /\ HasHealth) =>
       /\ gameState.health = Max(100 - 10 * collisions, 0)
       /\ gameState.gameOver <=> collisions >= 10
       /\ collisions = 9 => (gameState.health = 10 /\ gameState.isPlaying)
       /\ lastStep.kind = "update" =>
             gameState.health =
                Max(lastStep.prev.health - (IF Overlapping # {} THEN 10 ELSE 0), 0)

\* C10's case: the 10th collision, with both enemies overlapping the player
\* in the same update, has taken the health from 10 to 0 and ended the game.
C10_TenthCollisionByTwo ==
    /\ Mounted /\ HasHealth /\ lastStep.kind = "update"
    /\ collisions = 10 /\ Cardinality(Overlapping) = 2
    /\ lastStep.prev.health = 10 /\ ~lastStep.prev.gameOver
    /\ gameState.health = 0 /\ gameState.gameOver /\ ~gameState.isPlaying

(***************************************************************************)
(* SpecTraffic: one session with two enemies that respawn at either end of *)
(* the respawn range, in the player's lane or in the right lane.  The      *)
(* player chooses the keys to hold (ArrowUp, ShiftLeft) before the first   *)
(* update and presses Space once.  An enemy of the 3D game comes round     *)
(* every 7 to 9 updates, one of the 2D game after about 100.               *)
(***************************************************************************)
TrafficFrames3D  == 30    \* updates of the 3D game followed
TrafficFrames2D  == 110   \* updates of the 2D game followed
TrafficKeyEvents == 1     \* keys pressed before the first update

TrafficGames == { << "2D", "classic" >>, << "3D", "classic" >>, << "3D", "competition" >> }

TrafficDraws ==
    [x |-> {40, 99}, lane |-> {40, 99}, speed |-> {75}, z |-> {0, 99},
     ai |-> {99}, aggr |-> {50}, enemies |-> 2]

NextTraffic ==
    \/ session = 0 /\ SelectMode(TrafficGames, TrafficDraws)
    \/ timers = << >> /\ SpaceStart
    \/ CountdownTick
    \/ frames = 0 /\ KeyDown({"ArrowUp", "ShiftLeft"}, TrafficKeyEvents)
    \/ variant = "3D" /\ Frame(TrafficDraws, TrafficFrames3D)
    \/ variant = "2D" /\ Frame(TrafficDraws, TrafficFrames2D)

SpecTraffic == Init /\ [][NextTraffic]_vars

\* The enemy's forward coordinate after its move in the last update, before
\* the respawn test (hundredths).
MovedTo(i) ==
    IF variant = "3D"
    THEN lastStep.prev.enemies[i].z + lastStep.prev.enemies[i].speed
    ELSE lastStep.prev.enemies[i].y + lastStep.prev.enemies[i].speed
            + gameState.speed * 5

\* C11: the enemy collection keeps the length initGame gave it, and an enemy
\* whose forward coordinate after its move exceeds the threshold (z > 15,
\* y > 700) ends the same update behind the player: z in [-30, -20],
\* y in [-700, -200].
C11_EnemiesRecycled ==
    Mounted =>
       /\ Len(gameState.enemies) = NumEnemies(ModeConfig, TrafficDraws)
       /\ lastStep.kind = "update" =>
             /\ Len(lastStep.prev.enemies) = Len(gameState.enemies)
             /\ \A i \in 1 .. Len(gameState.enemies) :
                   IF variant = "3D"
                   THEN MovedTo(i) > 1500 =>
                           gameState.enemies[i].z \in -3000 .. -2000
                   ELSE MovedTo(i) > (GAME_HEIGHT + 100) * 100 =>
                           gameState.enemies[i].y \in -70000 .. -20000

\* C11's case: the last update of the 2D game took an enemy that had passed
\* y = 700 to the far end of the respawn range.
C11_RespawnedFar ==
    /\ Mounted /\ variant = "2D" /\ lastStep.kind = "update"
    /\ \E i \in 1 .. Len(gameState.enemies) :
          /\ MovedTo(i) > (GAME_HEIGHT + 100) * 100
          /\ gameState.enemies[i].y = -69500


\* The enemies ahead of the player in the current state.
Ahead == {i \in 1 .. Len(gameState.enemies) : gameState.enemies[i].z > 0}

\* C12: with aggressiveAI the rank after every update is 1 + the number of
\* enemies with z > 0 after that update, hence within 1 .. enemies + 1;
\* without aggressiveAI the rank keeps its initial value 1.
C12_RankCountsAhead ==
    (Mounted /\ variant = "3D") =>
       /\ gameState.competitionRank \in 1 .. Len(gameState.enemies) + 1
       /\ (ModeConfig.aggressiveAI /\ lastStep.kind = "update") =>
             gameState.competitionRank = 1 + Cardinality(Ahead)
       /\ (~ModeConfig.aggressiveAI \/ frames = 0) =>
             gameState.competitionRank = 1

\* C12's case: a competition update left both enemies ahead, rank 3.
C12_LastPlace ==
    /\ Mounted /\ variant = "3D" /\ ModeConfig.aggressiveAI
    /\ lastStep.kind = "update" /\ Cardinality(Ahead) = 2
    /\ gameState.competitionRank = 3


\* C13: in every state of the 3D game health and the nitro meter lie in
\* [0, 100] (health in units, the meter in tenths).
C13_MetersInRange ==
    (Mounted /\ variant = "3D") =>
       /\ 0 <= gameState.health /\ gameState.health <= 100
       /\ 0 <= gameState.nitroBoost /\ gameState.nitroBoost <= 1000

\* C13's case: boost was held until the meter was empty, in a session that
\* had lost health in a collision.
C13_EmptyMeterAfterCollision ==
    /\ Mounted /\ variant = "3D" /\ "ShiftLeft" \in keys
    /\ gameState.nitroBoost = 0 /\ gameState.health < 100 /\ frames > 200


(* SpecMeters: one competition session (health and nitro) in which boost   *)
(* can be held from the first update while the traffic respawns either in  *)
(* the player's lane or beside it.                                         *)
MetersFrames    == 210   \* updates followed
MetersKeyEvents == 1     \* keys pressed before the first update

MetersDraws ==
    [x |-> {40}, lane |-> {40, 99}, speed |-> {75}, z |-> {0},
     ai |-> {99}, aggr |-> {50}, enemies |-> 1]

NextMeters ==
    \/ session = 0 /\ SelectMode({ << "3D", "competition" >> }, MetersDraws)
    \/ timers = << >> /\ SpaceStart
    \/ CountdownTick
    \/ frames = 0 /\ KeyDown({"ShiftLeft"}, MetersKeyEvents)
    \/ Frame(MetersDraws, MetersFrames)

SpecMeters == Init /\ [][NextMeters]_vars


\* C14: the countdown lasts three ticks: once an interval started by a start
\* request has ticked three times (its count is 0) the game is playing.
C14_PlayingOnThirdTick ==
    (Mounted /\ ~gameState.gameOver /\ \E i \in 1 .. Len(timers) : timers[i] = 0)
        => gameState.isPlaying


\* C15: no countdown interval is active while the per-frame loop is
\* scheduled (isPlaying true, isPaused false, a frame requested).
C15_CountdownExcludesFrames ==
    (Mounted /\ gameState.isPlaying /\ ~gameState.isPaused /\ rafLatest)
        => timers = << >>


\* The fields of the simulation a pause must keep.
Simulated(state) ==
    IF variant = "3D"
    THEN << state.time, state.score, state.speed, state.position,
            state.playerX, state.enemies, state.health, state.nitroBoost,
            state.perfectDriving >>
    ELSE << state.time, state.score, state.speed, state.position,
            state.playerX, state.enemies >>

\* C16: while isPaused is true no frame request is pending, and no step
\* taken in the paused game (key presses and releases, countdown ticks,
\* timeouts) runs an update or changes time, score, speed, position,
\* playerX, enemies, health, nitroBoost or perfectDriving; the step that
\* clears isPaused leaves exactly one frame request.
C16_PauseFreezes ==
    [][(Mounted /\ gameState.isPaused) =>
          /\ ~rafLatest /\ rafStale = 0
          /\ Mounted' =>
                /\ frames' = frames
                /\ Simulated(gameState') = Simulated(gameState)
                /\ ~gameState'.isPaused => rafLatest' /\ rafStale' = 0]_vars

\* C16's case: the game was paused after an update and a control key is held.
C16_PausedMidGame ==
    /\ Mounted /\ gameState.isPaused /\ gameState.isPlaying
    /\ frames > 0 /\ keys # {} /\ ~rafLatest


\* C17: the step that leaves the game switches to the menu, leaves no frame
\* request pending, calls onGameEnd for nothing (no timeout is added) and
\* keeps the page's other state; while no game is mounted no frame request
\* is pending, so no update of the session left can run.
C17_LeavingCancels ==
    [][/\ ~Mounted => ~rafLatest /\ rafStale = 0
       /\ (Mounted /\ ~Mounted') =>
             /\ appState' = "menu"
             /\ ~rafLatest' /\ rafStale' = 0
             /\ menuTimers' <= menuTimers
             /\ selectedMode' = selectedMode /\ session' = session]_vars

\* C17's case: a competition session, which no two updates can end, was
\* left for the menu.
C17_LeftCompetition ==
    /\ appState = "menu" /\ session = 1
    /\ variant = "3D" /\ selectedMode = "competition"


(***************************************************************************)
(* Leaderboard: addScore.  An entry is [id, score, rank]; id stands for    *)
(* Date.now() and numbers the calls of a mode.  playerName, time, mode and *)
(* date are carried along and never read by addScore.                      *)
(***************************************************************************)
\* An insertion that puts the new entry ahead of the entries with its
\* score; the leaderboard claim must tell it from the stable sort.
InsertAhead(sorted, entry) ==
    LET k == Cardinality({i \in 1 .. Len(sorted) : sorted[i].score > entry.score})
    IN  SubSeq(sorted, 1, k) \o << entry >> \o SubSeq(sorted, k + 1, Len(sorted))

\* One insertion of the stable sort by (a, b) => b.score - a.score: the
\* entry goes behind every entry whose score is not lower.
InsertByScore(sorted, entry) ==
    LET k == Cardinality({i \in 1 .. Len(sorted) : sorted[i].score >= entry.score})
    IN  SubSeq(sorted, 1, k) \o << entry >> \o SubSeq(sorted, k + 1, Len(sorted))

\* Array.prototype.sort with that comparator: stable, descending by score.
RECURSIVE SortByScore(_)
SortByScore(entries) ==
    IF entries = << >> THEN << >>
    ELSE InsertByScore(SortByScore(SubSeq(entries, 1, Len(entries) - 1)),
                       entries[Len(entries)])

\* .slice(0, 10)
Slice10(entries) == SubSeq(entries, 1, Min(Len(entries), 10))

\* .map((entry, index) => ({ ...entry, rank: index + 1 }))
Ranked(entries) == [i \in 1 .. Len(entries) |-> [entries[i] EXCEPT !.rank = i]]

\* The list addScore stores for the mode.
WithScore(entries, newEntry) ==
    Ranked(Slice10(SortByScore(Append(entries, newEntry))))

\* addScore(mode, score, time) in the mounted Leaderboard, and the render.
AddScore(modes, scores, maxAdds) ==
    /\ appState = "leaderboard"
    /\ \E mode \in modes, score \in scores :
         /\ Len(addCalls[mode]) < maxAdds
         /\ addCalls' = [addCalls EXCEPT ![mode] = Append(@, score)]
         /\ leaderboardData' =
               [leaderboardData EXCEPT ![mode] =
                   WithScore(@, [id |-> Len(addCalls[mode]) + 1,
                                 score |-> score, rank |-> 0])]
    /\ UNCHANGED << appState, selectedMode, variant, session, gameState, keys,
                    timers, orphans, rafLatest, rafStale, menuTimers, endCalls,
                    frames, collisions, keyEvents, lastStep >>

(***************************************************************************)
(* SpecBoard: the leaderboard page with scores added to two of its modes   *)
(***************************************************************************)
BoardAdds   == 11               \* addScore calls followed per mode
BoardTotal  == 12               \* addScore calls followed in all
BoardModes  == {"classic", "competition"}
BoardScores == {100, 250}

NextBoard ==
    \/ ShowLeaderboard
    \/ LeaderboardBack
    \/ /\ Len(addCalls["classic"]) + Len(addCalls["competition"]) < BoardTotal
       /\ AddScore(BoardModes, BoardScores, BoardAdds)

SpecBoard == Init /\ [][NextBoard]_vars

\* The ids of the entries a mode's list holds.
Listed(mode) == {leaderboardData[mode][i].id : i \in 1 .. Len(leaderboardData[mode])}

\* C18: each mode's list holds at most 10 entries (all of them up to 10),
\* is sorted by score in non-increasing order, entry i (0-based) has rank
\* i + 1, every entry is one of the scores added to the mode, and no score
\* left out beats a listed one: it is lower, or equal and added later.
C18_TopTen ==
    \A mode \in GameModes :
       LET list == leaderboardData[mode]
           calls == addCalls[mode]
       IN  /\ Len(list) = Min(Len(calls), 10)
           /\ \A i \in 1 .. Len(list) :
                 /\ list[i].rank = i
                 /\ list[i].id \in 1 .. Len(calls)
                 /\ list[i].score = calls[list[i].id]
                 /\ \A j \in i + 1 .. Len(list) :
                       list[i].score >= list[j].score /\ list[i].id # list[j].id
           /\ \A out \in (1 .. Len(calls)) \ Listed(mode) :
                 \A kept \in Listed(mode) :
                    \/ calls[out] < calls[kept]
                    \/ calls[out] = calls[kept] /\ kept < out

\* C18's case: the eleventh call ties with the last entry of a full list and
\* is left out.
C18_TieForLastPlace ==
    LET list == leaderboardData["classic"]
        calls == addCalls["classic"]
    IN  /\ Len(calls) = 11 /\ Len(list) = 10
        /\ list[10].score = 100 /\ calls[11] = 100
        /\ 11 \notin Listed("classic")


\* Nitro was applied in the last update.
NitroApplied ==
    variant = "3D" /\ UsedNitro3D(lastStep.prev, lastStep.held, ModeConfig)

\* C19: an update with neither ArrowUp nor ArrowDown held and no nitro
\* applied leaves a speed that is not greater than the previous speed and
\* not below the cruising floor 5.
C19_DecayNeverRaises ==
    (Mounted /\ lastStep.kind = "update"
        /\ lastStep.held \cap {"ArrowUp", "ArrowDown"} = {} /\ ~NitroApplied)
    => /\ gameState.speed <= lastStep.prev.speed
       /\ gameState.speed >= 50


\* The speed of the last update after its accelerate / brake / decay branch.
Throttled == Throttle3D(lastStep.prev.speed, lastStep.held, ModeConfig)

\* C20: in a hasNitro mode an update with ShiftLeft held and a meter above 0
\* adds 0.8 to the speed, capped at maxSpeed + 5, and takes 0.5 from the
\* meter, not below 0; every other update adds 0.1 to the meter, not above
\* 100, and adds nothing to the speed, which it does not raise beyond
\* maxSpeed; with the meter at 0 ShiftLeft gives no boost.
C20_NitroStep ==
    (Mounted /\ variant = "3D" /\ ModeConfig.hasNitro /\ lastStep.kind = "update")
    => IF "ShiftLeft" \in lastStep.held /\ lastStep.prev.nitroBoost > 0
       THEN /\ gameState.speed = Min(Throttled + 8, (ModeConfig.maxSpeed + 5) * 10)
            /\ gameState.nitroBoost = Max(lastStep.prev.nitroBoost - 5, 0)
       ELSE /\ gameState.speed = Throttled
            /\ gameState.speed <= Max(lastStep.prev.speed, ModeConfig.maxSpeed * 10)
            /\ gameState.nitroBoost = Min(lastStep.prev.nitroBoost + 1, 1000)

\* C20's case: an update with ShiftLeft held and the meter at 0, after the
\* boost had taken the speed to its cap.
C20_NoBoostOnEmpty ==
    /\ Mounted /\ variant = "3D" /\ lastStep.kind = "update"
    /\ "ShiftLeft" \in lastStep.held /\ lastStep.prev.nitroBoost = 0
    /\ lastStep.prev.speed = (ModeConfig.maxSpeed + 5) * 10
    /\ gameState.speed = lastStep.prev.speed - 1 /\ gameState.nitroBoost = 1


\* The score multiplier of the last update as the sum of its three bonuses
\* (tenths): nitro consumed, perfectDriving above 60 after the update, speed
\* above 0.9 maxSpeed after the update.
Multiplier ==
    10 + (IF NitroApplied THEN 5 ELSE 0)
       + (IF gameState.perfectDriving > 60 THEN 3 ELSE 0)
       + (IF gameState.speed > ModeConfig.maxSpeed * 9 THEN 2 ELSE 0)

\* C21: every update adds speed x 10 x m to the score, speed being the speed
\* the update produced; in the 3D game m is 1 plus the bonuses that apply,
\* one of 1, 1.2, 1.3, 1.5, 1.7, 1.8, 2.0; in the 2D game m is 1.
C21_ScoringFormula ==
    (Mounted /\ lastStep.kind = "update") =>
       IF variant = "3D"
       THEN /\ gameState.score - lastStep.prev.score
                  = gameState.speed * Multiplier * 10
            /\ Multiplier \in {10, 12, 13, 15, 17, 18, 20}
       ELSE gameState.score - lastStep.prev.score = gameState.speed * 100

\* C21's case: an update with all three bonuses, m = 2.0.
C21_AllBonuses ==
    /\ Mounted /\ variant = "3D" /\ lastStep.kind = "update"
    /\ Multiplier = 20
    /\ gameState.score - lastStep.prev.score = gameState.speed * 200


(* SpecPerfect: one 3D session in which accelerate is held from the first  *)
(* update and, at any later update, either released or joined by           *)
(* steer-left, the traffic keeping to the right lane.                      *)
PerfectFrames    == 100   \* updates followed
PerfectKeyEvents == 2     \* control-key events followed

PerfectDraws ==
    [x |-> {99}, lane |-> {99}, speed |-> {75}, z |-> {0},
     ai |-> {99}, aggr |-> {50}, enemies |-> 1]

NextPerfect ==
    \/ session = 0 /\ SelectMode({ << "3D", "timeAttack" >> }, PerfectDraws)
    \/ timers = << >> /\ SpaceStart
    \/ CountdownTick
    \/ frames = 0 /\ KeyDown({"ArrowUp"}, PerfectKeyEvents)
    \/ frames > 0 /\ keys = {"ArrowUp"} /\ KeyDown({"ArrowLeft"}, PerfectKeyEvents)
    \/ frames > 0 /\ keys = {"ArrowUp"} /\ KeyUp(PerfectKeyEvents)
    \/ Frame(PerfectDraws, PerfectFrames)

SpecPerfect == Init /\ [][NextPerfect]_vars

\* The player is centred and fast in the state: |playerX| < 1 and
\* speed > 0.8 maxSpeed.
CentredAndFast(state) ==
    /\ MagLess(state.playerX.m, << 1024, 0, 0 >>)
    /\ state.speed > ModeConfig.maxSpeed * 8

\* C22: an update adds exactly 1 to perfectDriving if the player is centred
\* and fast after its input handling and leaves it otherwise; no step of a
\* session lowers it, so perfectDriving > 60 persists once reached.
C22_PerfectNeverResets ==
    [][(Mounted /\ Mounted' /\ variant = "3D") =>
          /\ gameState'.perfectDriving >= gameState.perfectDriving
          /\ (gameState.perfectDriving > 60) => (gameState'.perfectDriving > 60)
          /\ gameState'.perfectDriving = gameState.perfectDriving
                + (IF frames' = frames + 1 /\ CentredAndFast(gameState')
                   THEN 1 ELSE 0)]_vars

\* C22's case: the counter is above 60 after an update that left the player
\* off-centre or slow, and the update still scored the +0.3 bonus.
C22_BonusKeptOffCentre ==
    /\ Mounted /\ variant = "3D" /\ lastStep.kind = "update"
    /\ gameState.perfectDriving > 60 /\ ~CentredAndFast(gameState)
    /\ Multiplier = 13


(* SpecBlock: one 3D session with an enemy of the left lane that may or    *)
(* may not take each chance to block, while the player steers to either    *)
(* edge of the road or stays in the middle.                                *)
BlockFrames    == 45   \* updates followed
BlockKeyEvents == 1    \* keys pressed before the first update

BlockGames == { << "3D", "classic" >>, << "3D", "competition" >> }

BlockDraws ==
    [x |-> {0}, lane |-> {0}, speed |-> {75}, z |-> {0},
     ai |-> {0, 99}, aggr |-> {50}, enemies |-> 1]

NextBlock ==
    \/ session = 0 /\ SelectMode(BlockGames, BlockDraws)
    \/ timers = << >> /\ SpaceStart
    \/ CountdownTick
    \/ frames = 0 /\ KeyDown({"ArrowLeft", "ArrowRight"}, BlockKeyEvents)
    \/ Frame(BlockDraws, BlockFrames)

SpecBlock == Init /\ [][NextBlock]_vars

\* Enemy i was recycled in the last update.
Recycled(i) == variant = "3D" /\ MovedTo(i) > 1500

\* C26: in every state of the 3D game every enemy's lane index is 0, 1 or 2
\* and its lateral position is one of the lane positions -2, 0, 2.
C26_EnemyLanesValid ==
    (Mounted /\ variant = "3D") =>
       \A i \in 1 .. Len(gameState.enemies) :
          /\ gameState.enemies[i].lane \in 0 .. 2
          /\ gameState.enemies[i].x \in {LANES3D[k] : k \in 1 .. 3}


\* Enemy i has another lane or lateral position than before the last update.
Shifted(i) ==
    \/ gameState.enemies[i].lane # lastStep.prev.enemies[i].lane
    \/ gameState.enemies[i].x # lastStep.prev.enemies[i].x

\* C23: an enemy that was not recycled changes lane or lateral position in
\* an update only in an aggressiveAI mode, within distance 5 of the player
\* after its move and from a lane next to the player's; it then stands in
\* the player's lane, one lane from where it was, at that lane's position.
C23_LaneShift ==
    (Mounted /\ variant = "3D" /\ lastStep.kind = "update") =>
       \A i \in 1 .. Len(gameState.enemies) :
          (~Recycled(i) /\ Shifted(i)) =>
             LET old == lastStep.prev.enemies[i]
                 new == gameState.enemies[i]
                 playerLane == PlayerLane3D(gameState.playerX)
             IN  /\ ModeConfig.aggressiveAI
                 /\ Abs(new.z) < 500
                 /\ Abs(old.lane - playerLane) = 1
                 /\ new.lane = playerLane
                 /\ Abs(new.lane - old.lane) = 1
                 /\ new.lane \in 0 .. 2
                 /\ new.x = LANES3D[new.lane + 1]


(* SpecEnd: one quickRace session (30 s) of either game, with the keys      *)
(* chosen before the first update and Space pausing and resuming at any    *)
(* time.  SpecEndFair adds what the claim about the eventual end assumes:  *)
(* frames keep being delivered whenever the loop is scheduled again and    *)
(* again, and a paused game is resumed.                                    *)
EndFrames    == 1802   \* updates followed
EndKeyEvents == 1      \* keys pressed before the first update

EndGames == { << "2D", "quickRace" >>, << "3D", "quickRace" >> }

EndDraws ==
    [x |-> {40, 99}, lane |-> {99}, speed |-> {75}, z |-> {0},
     ai |-> {99}, aggr |-> {50}, enemies |-> 1]

Resume == Mounted /\ gameState.isPaused /\ SpacePause

NextEnd ==
    \/ session = 0 /\ SelectMode(EndGames, EndDraws)
    \/ timers = << >> /\ SpaceStart
    \/ CountdownTick
    \/ frames = 0 /\ KeyDown({"ArrowUp", "ArrowRight"}, EndKeyEvents)
    \/ SpacePause
    \/ Frame(EndDraws, EndFrames)

SpecEnd == Init /\ [][NextEnd]_vars

\* A Frame step of SpecEnd can be taken: what ENABLED Frame(EndDraws,
\* EndFrames) comes to, since the updater and the draws are total and a
\* session of SpecEnd ends at most once.
FrameEnabled == Mounted /\ frames < EndFrames /\ Runnable # {}

\* Strong fairness of the Frame steps, which are the steps that count a
\* frame, with the enabling condition written out; weak fairness of Resume.
SpecEndFair ==
    /\ SpecEnd
    /\ (<>[](~FrameEnabled) \/ []<><<frames' = frames + 1>>_vars)
    /\ WF_vars(Resume)

\* C24: in a mode with a time limit a session that is playing eventually
\* has gameOver set, by a collision or by the time check.
C24_TimedSessionEnds ==
    (Mounted /\ gameState.isPlaying /\ ModeConfig.timeLimit # Infinity)
        ~> (Mounted /\ gameState.gameOver)

\* C24's case: a session ran to the time limit without a collision and
\* ended on the time check.
C24_RanOutOfTime ==
    /\ Mounted /\ gameState.gameOver /\ collisions = 0
    /\ frames = EndUpdate(ModeConfig.timeLimit)


\* The state the last update would have produced without ShiftLeft.
WithoutShift ==
    Update3D(lastStep.prev, lastStep.held \ {"ShiftLeft"}, gameState.enemies).state

\* C25: in the 3D modes without hasHealth health is 100 in every state,
\* collision updates included; in the modes without hasNitro the meter is
\* 100 in every state and an update with ShiftLeft held produces the state
\* it produces without it.
C25_ModeGatedFeatures ==
    (Mounted /\ variant = "3D") =>
       /\ ~ModeConfig.hasHealth => gameState.health = 100
       /\ ~ModeConfig.hasNitro =>
             /\ gameState.nitroBoost = 1000
             /\ (lastStep.kind = "update" /\ "ShiftLeft" \in lastStep.held)
                   => gameState = WithoutShift

\* C25's case: a collision update with ShiftLeft held in a mode that has
\* neither health nor nitro.
C25_CollisionWithShiftHeld ==
    /\ Mounted /\ variant = "3D"
    /\ ~ModeConfig.hasHealth /\ ~ModeConfig.hasNitro
    /\ lastStep.kind = "update" /\ lastStep.collision
    /\ "ShiftLeft" \in lastStep.held
    /\ gameState.health = 100 /\ gameState.nitroBoost = 1000


(* SpecSessions: the page with one game session after another, each left   *)
(* by Back or by the timeout of a game end, under every interleaving with  *)
(* the timeouts and intervals earlier sessions left behind.                *)
MaxSessions   == 2   \* game components mounted one after another
SessionFrames == 2   \* updates followed in one session

NextSessions ==
    \/ session < MaxSessions /\ SelectMode(LifeGames, LifeDraws)
    \/ Back
    \/ MenuTimeout
    \/ timers = << >> /\ SpaceStart
    \/ CountdownTick
    \/ OrphanTick
    \/ Frame(LifeDraws, SessionFrames)

SpecSessions == Init /\ [][NextSessions]_vars

\* C27: a timeout of handleGameEnd takes the page out of 'playing' only if
\* the session being played has itself notified its end.
C27_SessionsIsolated ==
    [][(Mounted /\ ~Mounted' /\ menuTimers' < menuTimers) => endCalls > 0]_vars


\* C28: at most one countdown interval runs at any time, none runs once the
\* session is playing or ended, and none is left running by a session that
\* was left.
C28_OneCountdown ==
    /\ Len(timers) + Len(orphans) <= 1
    /\ (Mounted /\ (gameState.isPlaying \/ gameState.gameOver)) => timers = << >>
    /\ ~Mounted => orphans = << >>


PassFrames    == 12   \* updates followed
PassKeyEvents == 1    \* keys pressed before the first update

PassGames == { << "3D", "classic" >>, << "3D", "endless" >>, << "3D", "competition" >> }

PassDraws ==
    [x |-> {40}, lane |-> {40}, speed |-> {16, 75}, z |-> {0, 99},
     ai |-> {99}, aggr |-> {50}, enemies |-> 1]

NextPass ==
    \/ session = 0 /\ SelectMode(PassGames, PassDraws)
    \/ timers = << >> /\ SpaceStart
    \/ CountdownTick
    \/ frames = 0 /\ KeyDown({"ArrowUp", "ShiftLeft"}, PassKeyEvents)
    \/ Frame(PassDraws, PassFrames)

SpecPass == Init /\ [][NextPass]_vars

\* The enemy's lateral rectangle overlaps the player's in the state.
LateralOverlap(state, enemy) ==
    /\ enemy.x # Undefined
    /\ F64Less(F64Sub(state.playerX, F64_0_4),
               F64Add(F64Sub(F64Int(enemy.x), F64_0_4), F64_0_8))
    /\ F64Less(F64Sub(F64Int(enemy.x), F64_0_4),
               F64Add(F64Sub(state.playerX, F64_0_4), F64_0_8))

\* C30: an enemy that an update takes from behind the player's rectangle
\* (z <= -1.6) to ahead of it (z >= 1.6), overlapping the player laterally
\* before and after, has caused a collision to be detected.
C30_NoPassThrough ==
    (Mounted /\ variant = "3D" /\ lastStep.kind = "update") =>
       \A i \in 1 .. Len(gameState.enemies) :
          (/\ ~Recycled(i)
           /\ lastStep.prev.enemies[i].z <= -160
           /\ gameState.enemies[i].z >= 160
           /\ LateralOverlap(lastStep.prev, lastStep.prev.enemies[i])
           /\ LateralOverlap(gameState, gameState.enemies[i]))
          => collisions > 0

====
